---- MODULE Spec2Model ----
(***************************************************************************)
(* servicio-datos: the user store, the OTP store and the OTP-gated         *)
(* password reset, as a state machine.  One step per awaited database      *)
(* statement or gateway call; the code between two awaits runs with the    *)
(* step that precedes it.                                                  *)
(***************************************************************************)
EXTENDS Integers, Sequences, FiniteSets, TLC

VARIABLES users, otps, now, pc, req, loc, last, resetCount, boot

vars == <<users, otps, now, pc, req, loc, last, resetCount, boot>>

(***************************************************************************)
(* Bounds of the model.                                                    *)
(***************************************************************************)
MaxUsers == 2
MaxOtps == 2
MaxTime == 3
MaxListed == 3
MaxRetries == 6

Procs == {"h1", "h2"}
Emails == {"a@b.com", "c@d.com"}
OtpValues == {"482913", "135790"}
GatewayOtps == {"482913"}
Passwords == {"pw1", "pw2"}
RegisterPasswords == {"pw1"}
Names == {"n1", "n2"}
RegisterNames == {"n1"}
Phones == {"t1", "t2"}
RegisterPhones == {"t1"}
UserIds == 1..MaxUsers
Missing == ""

(***************************************************************************)
(* Time.  The clock is in milliseconds and advances in steps of half the   *)
(* expiry interval, so that ages below, at and above five minutes occur.   *)
(***************************************************************************)
FIVE_MINUTES_IN_MS == 5 * 60 * 1000
TickMs == FIVE_MINUTES_IN_MS \div 2

DefaultAccountStatus == "PENDING_VALIDATION"
DefaultOtpStatus == "CREATED"

(***************************************************************************)
(* ResponseModel: the factories the controllers use.                       *)
(***************************************************************************)
ResponseModel(success, data, error, statusCode) ==
    [success |-> success, data |-> data, error |-> error,
     status |-> statusCode]

Success(data, statusCode) == ResponseModel(TRUE, data, "null", statusCode)
BadRequest == ResponseModel(FALSE, "null", "null", 400)
NotFound == ResponseModel(FALSE, "null", "null", 404)
InternalError == ResponseModel(FALSE, "null", "null", 500)
DatabaseError == ResponseModel(FALSE, "null", "DATABASE_ERROR", 500)
\* no response is sent: the handler's promise is rejected
Unanswered == ResponseModel(FALSE, "null", "null", 0)

\* the body no response has
NoBody == [none |-> TRUE]

\* ResponseModel.send: res.status(this.statusCode).json({success, message,
\* data, error, timestamp}); the message and the timestamp are not followed
ToJSON(response) ==
    IF response = Unanswered THEN NoBody
    ELSE [success |-> response.success, message |-> "message",
          data |-> response.data, error |-> response.error,
          timestamp |-> "timestamp"]

EmailDuplicate == ResponseModel(FALSE, "null", "EMAIL_DUPLICATE", 409)

(***************************************************************************)
(* Errors thrown by the repositories: statusCode and code (0 / "none" when *)
(* the property is absent).                                                *)
(***************************************************************************)
Err(statusCode, code) == [statusCode |-> statusCode, code |-> code]
NoErr == Err(0, "none")

\* UserRepository._createDuplicateEmailError
CreateDuplicateEmailError == Err(409, "EMAIL_DUPLICATE")

\* UserRepository._handleDatabaseError: an error that carries a statusCode
\* is re-thrown, any other is wrapped with statusCode 500.
HandleDatabaseError(error) ==
    IF error.statusCode # 0 THEN error ELSE Err(500, "none")

\* new Error(message): neither statusCode nor code
PlainError == Err(0, "Error")

\* the driver's unique_violation: it carries a code, no statusCode
UniqueViolation == Err(0, "23505")

\* the driver's error for a NULL in a NOT NULL column; it has no statusCode
NotNullViolation == Err(0, "23502")

\* the gateway client's transport error (axios): no statusCode
TransportError == Err(0, "ECONNREFUSED")

\* UserControllerDB._handleControllerError
HandleControllerError(error) ==
    IF error.statusCode = 409 \/ error.code = "EMAIL_DUPLICATE"
    THEN EmailDuplicate
    ELSE IF error.statusCode = 500
         THEN DatabaseError
         ELSE InternalError

(***************************************************************************)
(* The users relation.  A row's id is its position.                        *)
(***************************************************************************)
UserRow(name, email, password, phone, created_at) ==
    [name |-> name, email |-> email, password |-> password, phone |-> phone,
     account_status |-> DefaultAccountStatus, created_at |-> created_at]

\* name, email and password are NOT NULL
NotNullViolated(row) ==
    row.name = Missing \/ row.email = Missing \/ row.password = Missing

\* SELECT * FROM users WHERE email = $1 AND account_status != 'DELETED'
FindByEmail(email) ==
    LET found == {i \in 1..Len(users) :
                     users[i].email = email /\ users[i].account_status # "DELETED"}
    IN  IF found = {} THEN 0 ELSE CHOOSE i \in found : TRUE

\* mutant: the lookup by id does not test the status
FindById_AnyStatus(id) ==
    IF id \in 1..Len(users) THEN id ELSE 0

\* SELECT * FROM users WHERE id = $1 AND account_status != 'DELETED'
FindById(id) ==
    IF id \in 1..Len(users) /\ users[id].account_status # "DELETED" THEN id ELSE 0

\* SELECT * FROM users WHERE id = $1 AND email = $2 AND account_status != 'DELETED'
FindByIdAndEmail(id, email) ==
    IF id \in 1..Len(users) /\ users[id].email = email
       /\ users[id].account_status # "DELETED"
    THEN id ELSE 0

\* mutant: the availability check finds every email free
CheckEmailAvailability_AlwaysFree(email, excludeUserId) == TRUE

\* UserRepository._checkEmailAvailability
CheckEmailAvailability(email, excludeUserId) ==
    LET existingUser == FindByEmail(email)
    IN  IF existingUser = 0 THEN TRUE
        ELSE IF excludeUserId # 0 /\ existingUser # excludeUserId THEN FALSE
        ELSE FALSE

\* mutant: the table has no unique index on email
EmailUniqueViolated_NoIndex(email, exceptId) == FALSE

\* users.email is UNIQUE over the whole table, DELETED rows included
EmailUniqueViolated(email, exceptId) ==
    \E i \in 1..Len(users) : i # exceptId /\ users[i].email = email

(***************************************************************************)
(* The otp relation.                                                       *)
(***************************************************************************)
OtpRow(otp, user_id) ==
    [otp |-> otp, user_id |-> user_id, created_at |-> now,
     otp_status |-> DefaultOtpStatus]

\* mutant: the sweep expires no row
SweepCondition_Never(row) == FALSE

\* UPDATE otp SET otp_status = 'EXPIRED'
\* WHERE otp_status = 'CREATED' AND created_at <= NOW() - INTERVAL '5 minutes'
SweepCondition(row) ==
    row.otp_status = "CREATED" /\ row.created_at <= now - FIVE_MINUTES_IN_MS

ExpireSweep ==
    [i \in 1..Len(otps) |->
        IF SweepCondition(otps[i])
        THEN [otps[i] EXCEPT !.otp_status = "EXPIRED"]
        ELSE otps[i]]

\* SELECT 1 FROM otp WHERE user_id = $1 AND otp_status = 'CREATED' LIMIT 1
HasActiveOtp(userId) ==
    \E i \in 1..Len(otps) :
        otps[i].user_id = userId /\ otps[i].otp_status = "CREATED"

\* mutant: the lookup of the passcode ignores the status of the row
FindOtpToVerify_AnyStatus(userId, otp) ==
    {i \in 1..Len(otps) : otps[i].user_id = userId /\ otps[i].otp = otp}

\* SELECT * FROM otp WHERE user_id = $1 AND otp = $2 AND otp_status = 'CREATED'
FindOtpToVerify(userId, otp) ==
    {i \in 1..Len(otps) :
        otps[i].user_id = userId /\ otps[i].otp = otp
        /\ otps[i].otp_status = "CREATED"}

(***************************************************************************)
(* The paginated list.                                                     *)
(***************************************************************************)
Min(a, b) == IF a < b THEN a ELSE b
Max(a, b) == IF a < b THEN b ELSE a

\* Math.ceil(totalItems / pageSize)
Ceil(totalItems, pageSize) == (totalItems + pageSize - 1) \div pageSize

\* mutant: the offset is page * size
ValidateAndCalculatePagination_OffByOnePage(page, size) ==
    LET validatedPage == Max(1, page)
        validatedSize == Min(Max(1, size), 100)
    IN  [validatedPage |-> validatedPage, validatedSize |-> validatedSize,
         offset |-> validatedPage * validatedSize]

\* UserRepository._validateAndCalculatePagination
ValidateAndCalculatePagination(page, size) ==
    LET validatedPage == Max(1, page)
        validatedSize == Min(Max(1, size), 100)
    IN  [validatedPage |-> validatedPage, validatedSize |-> validatedSize,
         offset |-> (validatedPage - 1) * validatedSize]

\* SELECT COUNT(*) as total FROM users WHERE account_status != 'DELETED'
CountQuery ==
    Cardinality({i \in 1..Len(users) : users[i].account_status # "DELETED"})

\* ORDER BY created_at DESC over a set of row ids (the order of rows with
\* equal created_at is not determined by the query)
RECURSIVE OrderByCreatedAtDesc(_)
OrderByCreatedAtDesc(ids) ==
    IF ids = {} THEN <<>>
    ELSE LET first == CHOOSE i \in ids :
                         \A j \in ids : users[j].created_at <= users[i].created_at
         IN  <<first>> \o OrderByCreatedAtDesc(ids \ {first})

\* SELECT * FROM users WHERE account_status != 'DELETED'
\* ORDER BY created_at DESC LIMIT $1 OFFSET $2  (the ids of the rows)
UsersQuery(size, offset) ==
    LET rows == OrderByCreatedAtDesc(
                    {i \in 1..Len(users) : users[i].account_status # "DELETED"})
    IN  SubSeq(rows, offset + 1, Min(offset + size, Len(rows)))

\* PaginatedUserResponse.createPaginated
CreatePaginated(rows, totalItems, currentPage, pageSize) ==
    [totalItems |-> totalItems, totalPages |-> Ceil(totalItems, pageSize),
     currentPage |-> currentPage, pageSize |-> pageSize, users |-> rows]

\* UserRepository.findAllPaginated over the store as it is
FindAllPaginated(page, size) ==
    LET v == ValidateAndCalculatePagination(page, size)
    IN  CreatePaginated(UsersQuery(v.validatedSize, v.offset), CountQuery,
                        v.validatedPage, v.validatedSize)

\* parseInt(req.query.x) || fallback: NaN (absent) and 0 are falsy
ParseIntOr(param, fallback) ==
    IF param = <<>> \/ param[1] = 0 THEN fallback ELSE param[1]

\* mutant: no row is found expired by verify
VerifyExpired_Never(row) == FALSE

\* now.getTime() - createdTime.getTime() > FIVE_MINUTES_IN_MS
VerifyExpired(row) == now - row.created_at > FIVE_MINUTES_IN_MS

(***************************************************************************)
(* Request handlers.  req is the request a handler serves, loc its local   *)
(* variables, last the response sent since the latest request arrived,     *)
(* with the operation, the passcode presented and the locals of the        *)
(* handler that sent it.  loc.writes lists the UPDATE statements the       *)
(* handler has executed in the reset flow, loc.gatewayCalls counts its     *)
(* calls of the OTP gateway.                                               *)
(***************************************************************************)
\* a query parameter is <<>> when absent and <<n>> when supplied
NoReq == [op |-> "none", id |-> 0, name |-> Missing, email |-> Missing,
          phone |-> Missing, otp |-> Missing, password |-> Missing,
          page |-> <<>>, size |-> <<>>]
NoPage == [totalItems |-> 0, totalPages |-> 0, currentPage |-> 0,
           pageSize |-> 0, users |-> <<>>]
NoLoc == [userId |-> 0, otpId |-> 0, otp |-> Missing, verified |-> FALSE,
          steps |-> <<>>, writes |-> <<>>, paginatedUsers |-> NoPage,
          counted |-> {}, gatewayCalls |-> 0]
NoLast == [op |-> "none", otp |-> Missing, loc |-> NoLoc, status |-> 0,
           success |-> FALSE, data |-> "null", error |-> "null",
           thrown |-> NoErr, body |-> NoBody]

InFlight(p) == pc[p] # "idle"

(***************************************************************************)
(* config/database.js: connectWithRetry(retries = 5, delay = 5000), called *)
(* once when the module is loaded.  boot is the call: its arguments, the   *)
(* loop variable i, its position, and counts of what it has done.          *)
(***************************************************************************)
DefaultRetries == 5
DefaultDelay == 5000
Delays == {1000, DefaultDelay}

Loading(retries, delay) ==
    [pc |-> "load", retries |-> retries, delay |-> delay, i |-> 0,
     calls |-> 0, attempts |-> 0, fails |-> 0, waits |-> 0, waited |-> 0,
     exits |-> 0, exitCode |-> 0]

\* the call of a process that connected at its first attempt
Connected ==
    [Loading(DefaultRetries, DefaultDelay) EXCEPT
        !.pc = "returned", !.i = 1, !.calls = 1, !.attempts = 1]

\* for (let i = 1; i <= retries; ...): the loop test
LoopTest(i, retries) == IF i <= retries THEN "connect" ELSE "returned"

\* connectWithRetry(): the call at module load, up to the first await
ConnectWithRetry ==
    /\ boot.pc = "load"
    /\ boot' = [boot EXCEPT !.calls = @ + 1, !.i = 1,
                            !.pc = LoopTest(1, boot.retries)]
    /\ UNCHANGED <<users, otps, now, pc, req, loc, last, resetCount>>

\* const client = await pool.connect() resolves: client.release(); return
PoolConnectResolves ==
    /\ boot.pc = "connect"
    /\ boot' = [boot EXCEPT !.attempts = @ + 1, !.pc = "returned"]
    /\ UNCHANGED <<users, otps, now, pc, req, loc, last, resetCount>>

\* mutant: the failed attempt is followed by a wait on the last turn too
PoolConnectRejects_AlwaysWait ==
    /\ boot.pc = "connect"
    /\ boot' = [boot EXCEPT !.attempts = @ + 1, !.fails = @ + 1,
                            !.pc = "sleep"]
    /\ UNCHANGED <<users, otps, now, pc, req, loc, last, resetCount>>

\* await pool.connect() rejects: catch; if (i < retries) wait, else
\* process.exit(1)
PoolConnectRejects ==
    /\ boot.pc = "connect"
    /\ IF boot.i < boot.retries
       THEN boot' = [boot EXCEPT !.attempts = @ + 1, !.fails = @ + 1,
                                 !.pc = "sleep"]
       ELSE boot' = [boot EXCEPT !.attempts = @ + 1, !.fails = @ + 1,
                                 !.exits = @ + 1, !.exitCode = 1,
                                 !.pc = "exited"]
    /\ UNCHANGED <<users, otps, now, pc, req, loc, last, resetCount>>

\* await new Promise(res => setTimeout(res, delay)) resolves; i++
SetTimeoutFires ==
    /\ boot.pc = "sleep"
    /\ boot' = [boot EXCEPT !.waits = @ + 1, !.waited = @ + boot.delay,
                            !.i = @ + 1,
                            !.pc = LoopTest(boot.i + 1, boot.retries)]
    /\ UNCHANGED <<users, otps, now, pc, req, loc, last, resetCount>>

\* response.send(res); thrown is the error the controller's catch received
Reply(p, response, thrown, locals) ==
    /\ pc' = [pc EXCEPT ![p] = "idle"]
    /\ req' = [req EXCEPT ![p] = NoReq]
    /\ loc' = [loc EXCEPT ![p] = NoLoc]
    /\ last' = [op |-> req[p].op, otp |-> req[p].otp, loc |-> locals,
                status |-> response.status, success |-> response.success,
                data |-> response.data, error |-> response.error,
                thrown |-> thrown, body |-> ToJSON(response)]

Send(p, response) == Reply(p, response, NoErr, loc[p])

SendThrown(p, error, response) == Reply(p, response, error, loc[p])

Goto(p, label) == pc' = [pc EXCEPT ![p] = label]

Begin(p, request, label) ==
    /\ ~InFlight(p)
    /\ req' = [req EXCEPT ![p] = request]
    /\ Goto(p, label)
    /\ last' = NoLast

Init ==
    /\ users = <<>>
    /\ otps = <<>>
    /\ now = 0
    /\ pc = [p \in Procs |-> "idle"]
    /\ req = [p \in Procs |-> NoReq]
    /\ loc = [p \in Procs |-> NoLoc]
    /\ last = NoLast
    /\ resetCount = <<>>
    /\ boot = Connected

Tick ==
    /\ now + TickMs <= MaxTime * TickMs
    /\ now' = now + TickMs
    /\ UNCHANGED <<users, otps, pc, req, loc, last, resetCount, boot>>

(***************************************************************************)
(* POST /users/register: UserControllerDB.registerUser, UserRepository.    *)
(* create.                                                                 *)
(***************************************************************************)
\* the bodies of register requests: complete ones, and one for each absent
\* required field
CompleteRegisterBodies ==
    [name : RegisterNames, email : Emails, password : RegisterPasswords,
     phone : RegisterPhones]

RegisterBodies ==
    CompleteRegisterBodies
    \cup {[name |-> Missing, email |-> "a@b.com", password |-> "pw1",
           phone |-> "t1"],
          [name |-> "n1", email |-> Missing, password |-> "pw1",
           phone |-> "t1"],
          [name |-> "n1", email |-> "a@b.com", password |-> Missing,
           phone |-> "t1"]}

\* const userRegister = new UserRegister(req.body): the fields are copied,
\* none is validated
StartRegister(p, bodies) ==
    /\ \E body \in bodies :
          Begin(p, [NoReq EXCEPT !.op = "register", !.name = body.name,
                                 !.email = body.email,
                                 !.password = body.password,
                                 !.phone = body.phone], "r_check")
    /\ UNCHANGED <<users, otps, now, boot, loc, resetCount>>

\* create: await this._checkEmailAvailability(email)
RegisterCheck(p) ==
    /\ pc[p] = "r_check"
    /\ IF CheckEmailAvailability(req[p].email, 0)
       THEN /\ Goto(p, "r_insert")
            /\ UNCHANGED <<req, loc, last>>
       ELSE LET error == HandleDatabaseError(CreateDuplicateEmailError)
            IN  SendThrown(p, error, HandleControllerError(error))
    /\ UNCHANGED <<users, otps, now, boot, resetCount>>

\* create: INSERT INTO users (name, email, password, phone) ... RETURNING *
RegisterInsert(p) ==
    /\ pc[p] = "r_insert"
    /\ IF NotNullViolated(req[p])
       THEN LET error == HandleDatabaseError(HandleDatabaseError(NotNullViolation))
            IN  /\ SendThrown(p, error, HandleControllerError(error))
                /\ UNCHANGED users
       ELSE IF EmailUniqueViolated(req[p].email, 0)
       THEN LET error == HandleDatabaseError(HandleDatabaseError(UniqueViolation))
            IN  /\ SendThrown(p, error, HandleControllerError(error))
                /\ UNCHANGED users
       ELSE /\ Len(users) < MaxUsers
            /\ users' = Append(users, UserRow(req[p].name, req[p].email,
                                              req[p].password, req[p].phone,
                                              now))
            /\ Reply(p, Success("user", 201), NoErr,
                     [loc[p] EXCEPT !.userId = Len(users) + 1])
    /\ UNCHANGED <<otps, now, boot, resetCount>>

(***************************************************************************)
(* DELETE /users/{id}: UserControllerDB.deleteUser, UserRepository.delete. *)
(***************************************************************************)
StartDelete(p, ids) ==
    /\ \E id \in ids :
          Begin(p, [NoReq EXCEPT !.op = "delete", !.id = id], "d_write")
    /\ UNCHANGED <<users, otps, now, boot, loc, resetCount>>

\* mutant: the UPDATE of delete does not test the status of the row
DeleteWrite_AnyStatus(p) ==
    /\ pc[p] = "d_write"
    /\ IF req[p].id \in 1..Len(users)
       THEN /\ users' = [users EXCEPT ![req[p].id].account_status = "DELETED"]
            /\ Reply(p, Success("null", 200), NoErr,
                     [loc[p] EXCEPT !.userId = req[p].id])
       ELSE /\ UNCHANGED users
            /\ Reply(p, NotFound, NoErr, [loc[p] EXCEPT !.userId = req[p].id])
    /\ UNCHANGED <<otps, now, boot, resetCount>>

\* UPDATE users SET account_status = 'DELETED'
\* WHERE id = $1 AND account_status != 'DELETED' RETURNING *
\* (loc.userId is the controller's userId = parseInt(req.params.id))
DeleteWrite(p) ==
    /\ pc[p] = "d_write"
    /\ IF FindById(req[p].id) # 0
       THEN /\ users' = [users EXCEPT ![req[p].id].account_status = "DELETED"]
            /\ Reply(p, Success("null", 200), NoErr,
                     [loc[p] EXCEPT !.userId = req[p].id])
       ELSE /\ UNCHANGED users
            /\ Reply(p, NotFound, NoErr, [loc[p] EXCEPT !.userId = req[p].id])
    /\ UNCHANGED <<otps, now, boot, resetCount>>

(***************************************************************************)
(* PUT /users/{id}: UserControllerDB.updateUser, UserRepository.update.    *)
(***************************************************************************)
\* the bodies that carry an email only
EmailBodies ==
    [name : {Missing}, email : Emails, phone : {Missing}, password : {Missing}]

\* bodies with no field, with one of name, email, phone and password, and
\* with all of them
UpdateBodies ==
    LET bodies == [name : {Missing, "n2"},
                   email : {Missing, "c@d.com", "e@f.com"},
                   phone : {Missing, "t2"}, password : {Missing, "pw3"}]
        Present(b) == {f \in DOMAIN b : b[f] # Missing}
    IN  {b \in bodies : Cardinality(Present(b)) <= 1}
        \cup {[name |-> "n2", email |-> "e@f.com", phone |-> "t2",
               password |-> "pw3"]}

\* const userUpdate = new UserUpdate(req.body): email, name and phone are
\* copied, every other field of the body is dropped
StartUpdate(p, ids, bodies) ==
    /\ \E id \in ids, body \in bodies :
          Begin(p, [NoReq EXCEPT !.op = "update", !.id = id,
                                 !.name = body.name, !.email = body.email,
                                 !.phone = body.phone,
                                 !.password = body.password], "u_find")
    /\ UNCHANGED <<users, otps, now, boot, loc, resetCount>>

\* update: const existingUser = await this.findById(id); if (email) ...
UpdateFind(p) ==
    /\ pc[p] = "u_find"
    /\ IF FindById(req[p].id) = 0
       THEN Send(p, NotFound)
       ELSE /\ Goto(p, IF req[p].email # Missing THEN "u_check" ELSE "u_write")
            /\ UNCHANGED <<req, loc, last>>
    /\ UNCHANGED <<users, otps, now, boot, resetCount>>

\* update: await this._checkEmailAvailability(email, id)
UpdateCheck(p) ==
    /\ pc[p] = "u_check"
    /\ IF CheckEmailAvailability(req[p].email, req[p].id)
       THEN /\ Goto(p, "u_write")
            /\ UNCHANGED <<req, loc, last>>
       ELSE LET error == HandleDatabaseError(CreateDuplicateEmailError)
            IN  SendThrown(p, error, HandleControllerError(error))
    /\ UNCHANGED <<users, otps, now, boot, resetCount>>

\* UserRepository._buildUpdateQuery: the fields of updateData that are not
\* undefined, among name, email, password and phone
BuildUpdateQuery(updateData) ==
    {f \in {"name", "email", "password", "phone"} :
        f \in DOMAIN updateData /\ updateData[f] # Missing}

\* the row after SET field = value for the fields of the query
SetFields(row, updateFields, updateData) ==
    [f \in DOMAIN row |-> IF f \in updateFields THEN updateData[f] ELSE row[f]]

\* mutant: the password of the body is copied too
UserUpdate_WithPassword(request) ==
    [name |-> request.name, email |-> request.email, phone |-> request.phone,
     password |-> request.password]

\* new UserUpdate(req.body)
UserUpdate(request) ==
    [name |-> request.name, email |-> request.email, phone |-> request.phone]

\* _buildUpdateQuery throws when no field is left; otherwise
\* UPDATE users SET <fields>, updated_at = CURRENT_TIMESTAMP
\* WHERE id = $n AND account_status != 'DELETED' RETURNING *
UpdateWrite(p) ==
    /\ pc[p] = "u_write"
    /\ LET updateData == UserUpdate(req[p])
           updateFields == BuildUpdateQuery(updateData)
       IN  IF updateFields = {}
           THEN LET error == HandleDatabaseError(PlainError)
                IN  /\ SendThrown(p, error, HandleControllerError(error))
                    /\ UNCHANGED users
           ELSE IF FindById(req[p].id) = 0
           THEN /\ Send(p, NotFound)
                /\ UNCHANGED users
           ELSE IF /\ "email" \in updateFields
                   /\ EmailUniqueViolated(req[p].email, req[p].id)
           THEN LET error ==
                        HandleDatabaseError(HandleDatabaseError(UniqueViolation))
                IN  /\ SendThrown(p, error, HandleControllerError(error))
                    /\ UNCHANGED users
           ELSE /\ users' = [users EXCEPT ![req[p].id] =
                                 SetFields(@, updateFields, updateData)]
                /\ Send(p, Success("user", 200))
    /\ UNCHANGED <<otps, now, boot, resetCount>>

(***************************************************************************)
(* PATCH /users/{id}/account_status: UserControllerDB.verifyUserAccount,   *)
(* UserRepository.verifyAccount.                                           *)
(***************************************************************************)
StartVerifyAccount(p, ids) ==
    /\ \E id \in ids :
          Begin(p, [NoReq EXCEPT !.op = "verifyAccount", !.id = id], "a_find")
    /\ UNCHANGED <<users, otps, now, boot, loc, resetCount>>

\* const user = await this.userRepository.findById(userId)
VerifyAccountFind(p) ==
    /\ pc[p] = "a_find"
    /\ IF FindById(req[p].id) = 0
       THEN Reply(p, NotFound, NoErr, [loc[p] EXCEPT !.userId = req[p].id])
       ELSE /\ loc' = [loc EXCEPT ![p].userId = req[p].id]
            /\ Goto(p, "a_write")
            /\ UNCHANGED <<req, last>>
    /\ UNCHANGED <<users, otps, now, boot, resetCount>>

\* mutant: the UPDATE of verifyAccount accepts every status but DELETED
VerifyAccountWrite_AnyLive(p) ==
    /\ pc[p] = "a_write"
    /\ IF FindById(loc[p].userId) # 0
       THEN /\ users' = [users EXCEPT ![loc[p].userId].account_status = "VERIFIED"]
            /\ Send(p, Success("account_status", 200))
       ELSE LET error == PlainError
            IN  /\ UNCHANGED users
                /\ \/ SendThrown(p, error, Unanswered)
                   \/ SendThrown(p, error, HandleControllerError(error))
    /\ UNCHANGED <<otps, now, boot, resetCount>>

\* UPDATE users SET account_status = 'VERIFIED'
\* WHERE id = $1 AND account_status = 'PENDING_VALIDATION' RETURNING *
\* With no row updated verifyAccount throws an Error without statusCode
\* and never returns a falsy value.  The controller's catch builds the
\* response and then evaluates `${id}`, an undeclared name, in the argument
\* of response.log: the ReferenceError leaves the request unanswered; the
\* file's other copy of the handler logs without it and sends the response.
VerifyAccountWrite(p) ==
    /\ pc[p] = "a_write"
    /\ IF /\ loc[p].userId \in 1..Len(users)
          /\ users[loc[p].userId].account_status = "PENDING_VALIDATION"
       THEN /\ users' = [users EXCEPT ![loc[p].userId].account_status = "VERIFIED"]
            /\ Send(p, Success("account_status", 200))
       ELSE LET error == PlainError
            IN  /\ UNCHANGED users
                /\ \/ SendThrown(p, error, Unanswered)
                   \/ SendThrown(p, error, HandleControllerError(error))
    /\ UNCHANGED <<otps, now, boot, resetCount>>

(***************************************************************************)
(* POST /auth/otp: OtpController.createOtp, OtpRepository.create.          *)
(***************************************************************************)
\* if (!email) return badRequest
StartCreateOtp(p, emails) ==
    /\ ~InFlight(p)
    /\ \E email \in emails :
          IF email = Missing
          THEN /\ last' = [op |-> "createOtp", otp |-> Missing, loc |-> NoLoc,
                           status |-> BadRequest.status,
                           success |-> BadRequest.success,
                           data |-> BadRequest.data,
                           error |-> BadRequest.error, thrown |-> NoErr,
                               body |-> ToJSON(BadRequest)]
               /\ UNCHANGED <<pc, req>>
          ELSE Begin(p, [NoReq EXCEPT !.op = "createOtp", !.email = email],
                     "o_gateway")
    /\ UNCHANGED <<users, otps, now, boot, loc, resetCount>>

\* the handler calls the gateway
Called(p) == [loc[p] EXCEPT !.gatewayCalls = @ + 1]

\* mutant: a failed call of the gateway is tried once more
CreateOtpGateway_Retry(p) ==
    /\ pc[p] = "o_gateway"
    /\ \/ \E otp \in GatewayOtps :
             /\ loc' = [loc EXCEPT ![p] = [Called(p) EXCEPT !.otp = otp]]
             /\ Goto(p, "o_user")
             /\ UNCHANGED <<req, last>>
       \/ /\ loc[p].gatewayCalls = 0
          /\ loc' = [loc EXCEPT ![p] = Called(p)]
          /\ UNCHANGED <<pc, req, last>>
       \/ /\ loc[p].gatewayCalls > 0
          /\ Reply(p, InternalError, TransportError, Called(p))
    /\ UNCHANGED <<users, otps, now, boot, resetCount>>

\* createOtp: await this.otpServiceClient.createOtp(); the gateway answers
\* with a passcode or the call fails
CreateOtpGateway(p) ==
    /\ pc[p] = "o_gateway"
    /\ \/ \E otp \in GatewayOtps :
             /\ loc' = [loc EXCEPT ![p] = [Called(p) EXCEPT !.otp = otp]]
             /\ Goto(p, "o_user")
             /\ UNCHANGED <<req, last>>
       \/ Reply(p, InternalError, TransportError, Called(p))
    /\ UNCHANGED <<users, otps, now, boot, resetCount>>

\* create: const user = await this.userRepository.findByEmail(email)
CreateOtpUser(p) ==
    /\ pc[p] = "o_user"
    /\ LET user == FindByEmail(req[p].email)
       IN  IF user = 0
           THEN SendThrown(p, HandleDatabaseError(Err(404, "none")), InternalError)
           ELSE /\ loc' = [loc EXCEPT ![p].userId = user]
                /\ Goto(p, "o_sweep")
                /\ UNCHANGED <<req, last>>
    /\ UNCHANGED <<users, otps, now, boot, resetCount>>

\* _checkExistingActiveOtp: await pool.query(expireQuery)
CreateOtpSweep(p) ==
    /\ pc[p] = "o_sweep"
    /\ otps' = ExpireSweep
    /\ Goto(p, "o_select")
    /\ UNCHANGED <<users, now, boot, req, loc, last, resetCount>>

\* mutant: the row is inserted although the user has an active passcode
CreateOtpSelect_NoTest(p) ==
    /\ pc[p] = "o_select"
    /\ Goto(p, "o_insert")
    /\ UNCHANGED <<req, loc, last>>
    /\ UNCHANGED <<users, otps, now, boot, resetCount>>

\* _checkExistingActiveOtp: SELECT 1 ... LIMIT 1, then create's hasActiveOtp test
CreateOtpSelect(p) ==
    /\ pc[p] = "o_select"
    /\ IF HasActiveOtp(loc[p].userId)
       THEN SendThrown(p, HandleDatabaseError(Err(409, "none")), InternalError)
       ELSE /\ Goto(p, "o_insert")
            /\ UNCHANGED <<req, loc, last>>
    /\ UNCHANGED <<users, otps, now, boot, resetCount>>

\* create: INSERT INTO otp (otp, user_id) VALUES ($1, $2) RETURNING *
CreateOtpInsert(p) ==
    /\ pc[p] = "o_insert"
    /\ Len(otps) < MaxOtps
    /\ otps' = Append(otps, OtpRow(loc[p].otp, loc[p].userId))
    /\ resetCount' = Append(resetCount, 0)
    /\ Reply(p, Success("otp", 201), NoErr,
             [loc[p] EXCEPT !.otpId = Len(otps) + 1])
    /\ UNCHANGED <<users, now, boot>>

(***************************************************************************)
(* PATCH /users/{id}/password: UserControllerDB.updatePassword with        *)
(* OtpRepository.verify and UserRepository.updatePassword.  loc.steps      *)
(* lists the steps of the flow the handler has attempted.                  *)
(***************************************************************************)
Attempt(p, step) ==
    [loc[p] EXCEPT !.steps = Append(@, step),
                   !.gatewayCalls = IF step = "format" THEN @ + 1 ELSE @]

\* the bodies of reset requests: complete ones, and one for each absent field
ResetBodies ==
    [email : Emails, otp : OtpValues, password : Passwords]
    \cup {[email |-> Missing, otp |-> "482913", password |-> "pw1"],
          [email |-> "a@b.com", otp |-> Missing, password |-> "pw1"],
          [email |-> "a@b.com", otp |-> "482913", password |-> Missing]}

\* if (!otp || !email || !password) return badRequest
StartReset(p, ids, bodies) ==
    /\ ~InFlight(p)
    /\ \E id \in ids, body \in bodies :
          LET locals == [NoLoc EXCEPT !.steps = <<"presence">>]
              request == [NoReq EXCEPT !.op = "reset", !.id = id,
                                       !.email = body.email, !.otp = body.otp,
                                       !.password = body.password]
          IN  IF body.otp = Missing \/ body.email = Missing
                 \/ body.password = Missing
              THEN /\ last' = [op |-> request.op, otp |-> request.otp,
                               loc |-> locals,
                               status |-> BadRequest.status,
                               success |-> BadRequest.success,
                               data |-> BadRequest.data,
                               error |-> BadRequest.error, thrown |-> NoErr,
                               body |-> ToJSON(BadRequest)]
                   /\ UNCHANGED <<pc, req, loc>>
              ELSE /\ req' = [req EXCEPT ![p] = request]
                   /\ loc' = [loc EXCEPT ![p] = locals]
                   /\ Goto(p, "p_format")
                   /\ last' = NoLast
    /\ UNCHANGED <<users, otps, now, boot, resetCount>>

\* await this.otpServiceClient.checkOtpFormat(checkRequest): the gateway
\* judges the format, or the call fails
ResetFormat(p) ==
    /\ pc[p] = "p_format"
    /\ \/ /\ loc' = [loc EXCEPT ![p] = Attempt(p, "format")]
          /\ Goto(p, "p_lookup")
          /\ UNCHANGED <<req, last>>
       \/ Reply(p, BadRequest, NoErr, Attempt(p, "format"))
       \/ Reply(p, HandleControllerError(TransportError), TransportError,
                Attempt(p, "format"))
    /\ UNCHANGED <<users, otps, now, boot, resetCount>>

\* const user = await this.userRepository.findByIdAndEmail(userId, email)
ResetLookup(p) ==
    /\ pc[p] = "p_lookup"
    /\ IF FindByIdAndEmail(req[p].id, req[p].email) = 0
       THEN Reply(p, NotFound, NoErr, Attempt(p, "lookup"))
       ELSE /\ loc' = [loc EXCEPT ![p] =
                       [Attempt(p, "lookup") EXCEPT !.userId = req[p].id]]
            /\ Goto(p, "v_user")
            /\ UNCHANGED <<req, last>>
    /\ UNCHANGED <<users, otps, now, boot, resetCount>>

\* verify: const user = await this.userRepository.findByIdAndEmail(userId, email)
VerifyUser(p) ==
    /\ pc[p] = "v_user"
    /\ IF FindByIdAndEmail(req[p].id, req[p].email) = 0
       THEN Reply(p, BadRequest, NoErr, Attempt(p, "verify"))
       ELSE /\ loc' = [loc EXCEPT ![p] = Attempt(p, "verify")]
            /\ Goto(p, "v_select")
            /\ UNCHANGED <<req, last>>
    /\ UNCHANGED <<users, otps, now, boot, resetCount>>

\* mutant: the SELECT of the CREATED row does not restrict the owner
VerifySelect_AnyOwner(p) ==
    /\ pc[p] = "v_select"
    /\ LET found == {i \in 1..Len(otps) : /\ otps[i].otp = req[p].otp
                                          /\ otps[i].otp_status = "CREATED"}
       IN  IF found = {}
           THEN Send(p, BadRequest)
           ELSE \E i \in found :
                   /\ loc' = [loc EXCEPT ![p].otpId = i]
                   /\ Goto(p, IF VerifyExpired(otps[i]) THEN "v_expire"
                                                        ELSE "v_verify")
                   /\ UNCHANGED <<req, last>>
    /\ UNCHANGED <<users, otps, now, boot, resetCount>>

\* verify: the SELECT of the CREATED row (rows[0] of an unordered result),
\* then the elapsed-time test on the row it returned
VerifySelect(p) ==
    /\ pc[p] = "v_select"
    /\ LET found == FindOtpToVerify(req[p].id, req[p].otp)
       IN  IF found = {}
           THEN Send(p, BadRequest)
           ELSE \E i \in found :
                   /\ loc' = [loc EXCEPT ![p].otpId = i]
                   /\ Goto(p, IF VerifyExpired(otps[i]) THEN "v_expire"
                                                        ELSE "v_verify")
                   /\ UNCHANGED <<req, last>>
    /\ UNCHANGED <<users, otps, now, boot, resetCount>>

\* mutant: the flow goes on to the password update after an expired passcode
VerifyExpire_Continue(p) ==
    /\ pc[p] = "v_expire"
    /\ otps' = [otps EXCEPT ![loc[p].otpId].otp_status = "EXPIRED"]
    /\ Goto(p, "w_find")
    /\ UNCHANGED <<users, now, boot, req, loc, last, resetCount>>

\* verify: UPDATE otp SET otp_status = 'EXPIRED' WHERE id = $1; return false
VerifyExpire(p) ==
    /\ pc[p] = "v_expire"
    /\ otps' = [otps EXCEPT ![loc[p].otpId].otp_status = "EXPIRED"]
    /\ Reply(p, BadRequest, NoErr,
             [loc[p] EXCEPT !.writes = Append(@, "EXPIRED")])
    /\ UNCHANGED <<users, now, boot, resetCount>>

\* mutant: the UPDATE selects the rows by passcode value, not by id
VerifyUpdate_ByValue(p) ==
    /\ pc[p] = "v_verify"
    /\ otps' = [i \in 1..Len(otps) |->
                  IF otps[i].otp = req[p].otp
                  THEN [otps[i] EXCEPT !.otp_status = "VERIFIED"]
                  ELSE otps[i]]
    /\ loc' = [loc EXCEPT ![p].verified = TRUE,
                          ![p].writes = Append(@, "VERIFIED")]
    /\ Goto(p, "w_find")
    /\ UNCHANGED <<users, now, boot, req, last, resetCount>>

\* verify: UPDATE otp SET otp_status = 'VERIFIED' WHERE id = $1 RETURNING *;
\* return true
VerifyUpdate(p) ==
    /\ pc[p] = "v_verify"
    /\ otps' = [otps EXCEPT ![loc[p].otpId].otp_status = "VERIFIED"]
    /\ loc' = [loc EXCEPT ![p].verified = TRUE,
                          ![p].writes = Append(@, "VERIFIED")]
    /\ Goto(p, "w_find")
    /\ UNCHANGED <<users, now, boot, req, last, resetCount>>

\* updatePassword: const existingUser = await this.findById(id)
PasswordFind(p) ==
    /\ pc[p] = "w_find"
    /\ IF FindById(req[p].id) = 0
       THEN Reply(p, BadRequest, NoErr, Attempt(p, "update"))
       ELSE /\ loc' = [loc EXCEPT ![p] = Attempt(p, "update")]
            /\ Goto(p, "w_write")
            /\ UNCHANGED <<req, last>>
    /\ UNCHANGED <<users, otps, now, boot, resetCount>>

\* mutant: the UPDATE of updatePassword does not test the status of the row
PasswordWrite_AnyStatus(p) ==
    /\ pc[p] = "w_write"
    /\ users' = [users EXCEPT ![req[p].id].password = req[p].password]
    /\ resetCount' = [resetCount EXCEPT ![loc[p].otpId] = @ + 1]
    /\ Reply(p, Success("null", 200), NoErr,
             [loc[p] EXCEPT !.writes = Append(@, "password")])
    /\ UNCHANGED <<otps, now, boot>>

\* UPDATE users SET password = $1, updated_at = CURRENT_TIMESTAMP
\* WHERE id = $2 AND account_status != 'DELETED' RETURNING *
PasswordWrite(p) ==
    /\ pc[p] = "w_write"
    /\ IF FindById(req[p].id) = 0
       THEN /\ Send(p, BadRequest)
            /\ UNCHANGED <<users, resetCount>>
       ELSE /\ users' = [users EXCEPT ![req[p].id].password = req[p].password]
            /\ resetCount' = [resetCount EXCEPT ![loc[p].otpId] = @ + 1]
            /\ Reply(p, Success("null", 200), NoErr,
                     [loc[p] EXCEPT !.writes = Append(@, "password")])
    /\ UNCHANGED <<otps, now, boot>>

(***************************************************************************)
(* GET /users?page&size: UserControllerDB.getAllUsersPaginated,            *)
(* UserRepository.findAllPaginated.  The count and the page are queried    *)
(* in parallel (Promise.all): either may run first.                        *)
(***************************************************************************)
PageParams == {<<>>} \cup {<<n>> : n \in -1..(MaxListed + 1)}
SizeParams == {<<>>} \cup {<<n>> : n \in {-1, 0, 1, 2, 3, 100, 101}}

\* const page = parseInt(req.query.page) || 1
RequestedPage(request) == ParseIntOr(request.page, 1)

\* const size = parseInt(req.query.size) || 10
RequestedSize(request) == ParseIntOr(request.size, 10)

StartList(p, pages, sizes) ==
    /\ \E page \in pages, size \in sizes :
          Begin(p, [NoReq EXCEPT !.op = "list", !.page = page, !.size = size],
                "l_validate")
    /\ UNCHANGED <<users, otps, now, boot, loc, resetCount>>

\* if (page < 1) badRequest; if (size < 1 || size > 100) badRequest;
\* then findAllPaginated's _validateAndCalculatePagination
ListValidate(p) ==
    /\ pc[p] = "l_validate"
    /\ LET page == RequestedPage(req[p])
           size == RequestedSize(req[p])
           v == ValidateAndCalculatePagination(page, size)
       IN  IF page < 1 \/ size < 1 \/ size > 100
           THEN Send(p, BadRequest)
           ELSE /\ loc' = [loc EXCEPT ![p].paginatedUsers =
                              [NoPage EXCEPT !.currentPage = v.validatedPage,
                                             !.pageSize = v.validatedSize]]
                /\ Goto(p, "l_both")
                /\ UNCHANGED <<req, last>>
    /\ UNCHANGED <<users, otps, now, boot, resetCount>>

\* the handler has both results: createPaginated, 200
ListDone(p, fetched, counted) ==
    LET paginatedUsers == CreatePaginated(fetched.users, fetched.totalItems,
                                          fetched.currentPage, fetched.pageSize)
    IN  Reply(p, Success("paginatedUsers", 200), NoErr,
              [loc[p] EXCEPT !.paginatedUsers = paginatedUsers,
                             !.counted = counted])

\* pool.query(countQuery); loc.counted keeps the rows that were counted
ListCount(p) ==
    /\ pc[p] \in {"l_both", "l_count"}
    /\ LET fetched == [loc[p].paginatedUsers EXCEPT !.totalItems = CountQuery]
           counted == {i \in 1..Len(users) :
                          users[i].account_status # "DELETED"}
       IN  IF pc[p] = "l_both"
           THEN /\ loc' = [loc EXCEPT ![p].paginatedUsers = fetched,
                                      ![p].counted = counted]
                /\ Goto(p, "l_page")
                /\ UNCHANGED <<req, last>>
           ELSE ListDone(p, fetched, counted)
    /\ UNCHANGED <<users, otps, now, boot, resetCount>>

\* pool.query(usersQuery, [size, offset])
ListPage(p) ==
    /\ pc[p] \in {"l_both", "l_page"}
    /\ LET v == ValidateAndCalculatePagination(RequestedPage(req[p]),
                                               RequestedSize(req[p]))
           fetched == [loc[p].paginatedUsers EXCEPT
                          !.users = UsersQuery(v.validatedSize, v.offset)]
       IN  IF pc[p] = "l_both"
           THEN /\ loc' = [loc EXCEPT ![p].paginatedUsers = fetched]
                /\ Goto(p, "l_count")
                /\ UNCHANGED <<req, last>>
           ELSE ListDone(p, fetched, loc[p].counted)
    /\ UNCHANGED <<users, otps, now, boot, resetCount>>

(***************************************************************************)
(* GET /health, /health/ready, /health/live, /actuator/health: the         *)
(* handlers of index.js answer at once with res.json.                      *)
(***************************************************************************)
HealthRoutes == {"/health", "/health/ready", "/health/live",
                 "/actuator/health"}

HealthStatus(route) ==
    IF route = "/health/ready" THEN "READY"
    ELSE IF route = "/health/live" THEN "LIVE"
    ELSE "UP"

\* formatUptime: the units from the first non-zero one down to the seconds
FormatUptime(seconds) ==
    LET days == seconds \div 86400
        hours == (seconds % 86400) \div 3600
        minutes == (seconds % 3600) \div 60
        secs == seconds % 60
    IN  IF days > 0 THEN <<days, "d", hours, "h", minutes, "m", secs, "s">>
        ELSE IF hours > 0 THEN <<hours, "h", minutes, "m", secs, "s">>
        ELSE IF minutes > 0 THEN <<minutes, "m", secs, "s">>
        ELSE <<secs, "s">>

\* res.json({status, version, uptime, uptimeSeconds}), HTTP 200
Health(p) ==
    /\ ~InFlight(p)
    /\ \E route \in HealthRoutes :
          LET uptimeSeconds == now \div 1000
          IN  last' = [NoLast EXCEPT
                          !.op = "health", !.status = 200,
                          !.body = [status |-> HealthStatus(route),
                                    version |-> "version",
                                    uptime |-> FormatUptime(uptimeSeconds),
                                    uptimeSeconds |-> uptimeSeconds]]
    /\ UNCHANGED <<users, otps, now, boot, pc, req, loc, resetCount>>

(***************************************************************************)
(* Specifications.                                                         *)
(*   Spec       the user store under concurrent requests                   *)
(*   SeqSpec    the user store, one request at a time                      *)
(*   OtpSpec    the OTP store and the reset flow under concurrent requests *)
(*              against registered users                                   *)
(*   OtpSeqSpec the same, one request at a time                            *)
(*   ListSpec   the paginated list over a fixed store                      *)
(***************************************************************************)
\* the sequential specifications have one handler, which serves one
\* request at a time, and their clock advances between requests
SeqProcs == {"h1"}
Quiet == \A p \in Procs : ~InFlight(p)

UserStep(p) ==
    \/ RegisterCheck(p)
    \/ RegisterInsert(p)
    \/ DeleteWrite(p)
    \/ UpdateFind(p)
    \/ UpdateCheck(p)
    \/ UpdateWrite(p)
    \/ VerifyAccountFind(p)
    \/ VerifyAccountWrite(p)

UserStart(p) ==
    \/ StartRegister(p, CompleteRegisterBodies)
    \/ StartDelete(p, UserIds)
    \/ StartUpdate(p, UserIds, EmailBodies)
    \/ StartVerifyAccount(p, UserIds)

UserSeqStart(p) ==
    \/ StartRegister(p, RegisterBodies)
    \/ StartDelete(p, UserIds)
    \/ StartUpdate(p, UserIds, EmailBodies)
    \/ StartVerifyAccount(p, UserIds)
    \/ Health(p)

OtpStep(p) ==
    \/ DeleteWrite(p)
    \/ CreateOtpGateway(p)
    \/ CreateOtpUser(p)
    \/ CreateOtpSweep(p)
    \/ CreateOtpSelect(p)
    \/ CreateOtpInsert(p)
    \/ ResetFormat(p)
    \/ ResetLookup(p)
    \/ VerifyUser(p)
    \/ VerifySelect(p)
    \/ VerifyExpire(p)
    \/ VerifyUpdate(p)
    \/ PasswordFind(p)
    \/ PasswordWrite(p)

\* concurrent requests of the OTP specification address one account
RaceIds == {1}
RaceEmails == {"a@b.com"}
RaceBodies == [email : RaceEmails, otp : OtpValues, password : {"pw2"}]
StoreResetBodies == [email : RaceEmails, otp : GatewayOtps, password : {"pw2"}]

OtpStart(p) ==
    \/ StartDelete(p, RaceIds)
    \/ StartCreateOtp(p, RaceEmails)
    \/ StartReset(p, RaceIds, RaceBodies)

OtpSeqStart(p) ==
    \/ StartDelete(p, UserIds)
    \/ StartCreateOtp(p, Emails \cup {Missing})
    \/ StartReset(p, UserIds, ResetBodies)

Next == \E p \in Procs : UserStart(p) \/ UserStep(p)

SeqNext == \E p \in SeqProcs : UserSeqStart(p) \/ UserStep(p)

OtpNext ==
    \/ Tick
    \/ \E p \in Procs : OtpStart(p) \/ OtpStep(p)

OtpSeqNext ==
    \/ Quiet /\ Tick
    \/ \E p \in SeqProcs : OtpSeqStart(p) \/ OtpStep(p)

\* the users of the OTP specifications: registered, not deleted
InitOtp ==
    /\ users = <<UserRow("n1", "a@b.com", "pw1", "t1", 0),
                 UserRow("n1", "c@d.com", "pw1", "t1", 0)>>
    /\ otps = <<>>
    /\ now = 0
    /\ pc = [p \in Procs |-> "idle"]
    /\ req = [p \in Procs |-> NoReq]
    /\ loc = [p \in Procs |-> NoLoc]
    /\ last = NoLast
    /\ resetCount = <<>>
    /\ boot = Connected

\* the stores of the list specification: up to MaxListed rows with distinct
\* emails and distinct creation times, some of them DELETED
ListEmails == <<"a@b.com", "c@d.com", "e@f.com", "g@h.com">>

ListStores ==
    UNION {
      {[i \in 1..n |-> [UserRow("n1", ListEmails[i], "pw1", "t1", t[i]) EXCEPT
                           !.account_status = st[i]]] :
          st \in [1..n -> {DefaultAccountStatus, "DELETED"}],
          t \in {f \in [1..n -> 1..n] :
                    \A i, j \in 1..n : i # j => f[i] # f[j]}} :
      n \in 0..MaxListed}

InitList ==
    /\ users \in ListStores
    /\ otps = <<>>
    /\ now = 0
    /\ pc = [p \in Procs |-> "idle"]
    /\ req = [p \in Procs |-> NoReq]
    /\ loc = [p \in Procs |-> NoLoc]
    /\ last = NoLast
    /\ resetCount = <<>>
    /\ boot = Connected

ListNext ==
    \E p \in SeqProcs :
        \/ StartList(p, PageParams, SizeParams)
        \/ ListValidate(p)
        \/ ListCount(p)
        \/ ListPage(p)

\* the list requests of the concurrent list specification
RacePages == {<<1>>, <<2>>}
RaceSizes == {<<>>, <<1>>}

ListRaceNext ==
    \E p \in Procs :
        \/ StartRegister(p, CompleteRegisterBodies)
        \/ StartDelete(p, UserIds)
        \/ StartList(p, RacePages, RaceSizes)
        \/ RegisterCheck(p)
        \/ RegisterInsert(p)
        \/ DeleteWrite(p)
        \/ ListValidate(p)
        \/ ListCount(p)
        \/ ListPage(p)

\* the process at module load, for every number of retries up to
\* MaxRetries
InitConn ==
    /\ users = <<>>
    /\ otps = <<>>
    /\ now = 0
    /\ pc = [p \in Procs |-> "idle"]
    /\ req = [p \in Procs |-> NoReq]
    /\ loc = [p \in Procs |-> NoLoc]
    /\ last = NoLast
    /\ resetCount = <<>>
    /\ boot \in {Loading(retries, delay) :
                     retries \in 0..MaxRetries, delay \in Delays}

\* the user and the OTP of the store specification: a registered user with
\* a passcode issued, just now or longer ago than the expiry interval
InitStore ==
    /\ users = <<UserRow("n1", "a@b.com", "pw1", "t1", 0)>>
    /\ otps = <<[otp |-> "482913", user_id |-> 1, created_at |-> 0,
                 otp_status |-> DefaultOtpStatus]>>
    /\ now \in {0, MaxTime * TickMs}
    /\ pc = [p \in Procs |-> "idle"]
    /\ req = [p \in Procs |-> NoReq]
    /\ loc = [p \in Procs |-> NoLoc]
    /\ last = NoLast
    /\ resetCount = <<0>>
    /\ boot = Connected

StoreRegisterBodies ==
    {[name |-> "n1", email |-> "c@d.com", password |-> "pw1", phone |-> "t1"]}

StoreStart(p) ==
    \/ StartRegister(p, StoreRegisterBodies)
    \/ StartDelete(p, RaceIds)
    \/ StartUpdate(p, RaceIds, UpdateBodies)
    \/ StartVerifyAccount(p, RaceIds)
    \/ StartReset(p, RaceIds, StoreResetBodies)

StoreStep(p) ==
    \/ RegisterCheck(p)
    \/ RegisterInsert(p)
    \/ DeleteWrite(p)
    \/ UpdateFind(p)
    \/ UpdateCheck(p)
    \/ UpdateWrite(p)
    \/ VerifyAccountFind(p)
    \/ VerifyAccountWrite(p)
    \/ ResetFormat(p)
    \/ ResetLookup(p)
    \/ VerifyUser(p)
    \/ VerifySelect(p)
    \/ VerifyExpire(p)
    \/ VerifyUpdate(p)
    \/ PasswordFind(p)
    \/ PasswordWrite(p)

StoreNext == \E p \in Procs : StoreStart(p) \/ StoreStep(p)

ConnNext ==
    \/ ConnectWithRetry
    \/ PoolConnectResolves
    \/ PoolConnectRejects
    \/ SetTimeoutFires

Spec == Init /\ [][Next]_vars
StoreSpec == InitStore /\ [][StoreNext]_vars
ListRaceSpec == Init /\ [][ListRaceNext]_vars
\* every attempt to connect settles and every timer fires
ConnSpec == InitConn /\ [][ConnNext]_vars /\ WF_vars(ConnNext)
ListSpec == InitList /\ [][ListNext]_vars
SeqSpec == Init /\ [][SeqNext]_vars
OtpSpec == InitOtp /\ [][OtpNext]_vars
OtpSeqSpec == InitOtp /\ [][OtpSeqNext]_vars

(***************************************************************************)
(* Properties.                                                             *)
(***************************************************************************)
Live(i) == users[i].account_status # "DELETED"

LiveHolders(rows, email) ==
    {i \in 1..Len(rows) :
        rows[i].email = email /\ rows[i].account_status # "DELETED"}

\* handler p sends its response in this step
Finishes(p) == pc[p] # "idle" /\ pc'[p] = "idle"

\* C1: under any interleaving of register and update requests, at most one
\* non-DELETED user holds any email value.
C1_EmailUniqueAmongLive ==
    \A i, j \in 1..Len(users) :
        (i # j /\ Live(i) /\ Live(j)) => users[i].email # users[j].email

\* a request has passed its availability check and its email has since been
\* taken by another live user
C1_Witness ==
    \E p \in Procs :
        /\ pc[p] \in {"r_insert", "u_write"}
        /\ FindByEmail(req[p].email) \notin {0, req[p].id}

\* C2: with requests one after another, registering an email that a
\* non-DELETED user holds answers 409 EMAIL_DUPLICATE and inserts no row; a
\* registration with a complete body of an email no row holds answers 201 and
\* inserts the row.
C2_RegisterStep ==
    \A p \in Procs :
        req[p].op = "register" =>
            /\ FindByEmail(req[p].email) # 0 =>
                  /\ users' = users
                  /\ pc'[p] # pc[p] =>
                        /\ pc'[p] = "idle"
                        /\ last'.status = 409
                        /\ last'.error = "EMAIL_DUPLICATE"
                        /\ ~last'.success
            /\ ( /\ \A i \in 1..Len(users) : users[i].email # req[p].email
                 /\ ~NotNullViolated(req[p])
                 /\ Finishes(p) ) =>
                  /\ last'.status = 201
                  /\ last'.success
                  /\ users' = Append(users,
                                     UserRow(req[p].name, req[p].email,
                                             req[p].password, req[p].phone,
                                             now))

C2_DuplicateRegistration == [][C2_RegisterStep]_vars

C2_Witness ==
    /\ last.op = "register"
    /\ last.status = 409
    /\ last.error = "EMAIL_DUPLICATE"
    /\ Len(users) = 1

\* C3: an update carrying an email fails with DuplicateEmail exactly when a
\* non-DELETED user with another id holds that email; an update to the
\* user's own current email succeeds.
C3_UpdateStep ==
    \A p \in Procs :
        (req[p].op = "update" /\ Finishes(p) /\ FindById(req[p].id) # 0) =>
            /\ last'.thrown.code = "EMAIL_DUPLICATE"
                  <=> LiveHolders(users, req[p].email) \ {req[p].id} # {}
            /\ users[req[p].id].email = req[p].email => last'.status = 200

C3_UpdateDuplicateEmail == [][C3_UpdateStep]_vars

\* C4: after the holder of an email was soft-deleted, a registration with
\* that email succeeds, and then exactly one non-DELETED row holds it.
C4_RegisterStep ==
    \A p \in Procs :
        ( /\ req[p].op = "register"
          /\ Finishes(p)
          /\ FindByEmail(req[p].email) = 0
          /\ \E i \in 1..Len(users) : users[i].email = req[p].email ) =>
            /\ last'.status = 201
            /\ Cardinality(LiveHolders(users', req[p].email)) = 1

C4_ReuseAfterDelete == [][C4_RegisterStep]_vars

\* age of an OTP row on the clock
Age(row) == now - row.created_at

OtpsOf(userId) == {i \in 1..Len(otps) : otps[i].user_id = userId}

\* C5: under any interleaving of concurrent OTP-create requests for one
\* user, every reachable state has at most one CREATED OTP row per user.
C5_AtMostOneCreatedPerUser ==
    \A i, j \in 1..Len(otps) :
        ( /\ otps[i].user_id = otps[j].user_id
          /\ otps[i].otp_status = "CREATED"
          /\ otps[j].otp_status = "CREATED" ) => i = j

\* C6: with requests one after another, create fails with a 409 error and
\* inserts nothing while the user has a CREATED OTP younger than 5 minutes;
\* once every OTP of the user is VERIFIED or older than 5 minutes, create
\* succeeds and inserts a new CREATED OTP.
C6_CreateStep ==
    \A p \in Procs :
        pc[p] \in {"o_sweep", "o_select", "o_insert"} =>
            LET u == loc[p].userId
                young == {i \in OtpsOf(u) : /\ otps[i].otp_status = "CREATED"
                                            /\ Age(otps[i]) < FIVE_MINUTES_IN_MS}
                free == \A i \in OtpsOf(u) :
                            \/ otps[i].otp_status = "VERIFIED"
                            \/ Age(otps[i]) > FIVE_MINUTES_IN_MS
            IN  /\ young # {} =>
                      /\ Len(otps') = Len(otps)
                      /\ pc'[p] # "o_insert"
                      /\ Finishes(p) => /\ last'.thrown.statusCode = 409
                                        /\ ~last'.success
                /\ (free /\ Finishes(p)) =>
                      /\ last'.status = 201
                      /\ last'.success
                      /\ Len(otps') = Len(otps) + 1
                      /\ otps'[Len(otps')].user_id = u
                      /\ otps'[Len(otps')].otp_status = "CREATED"
                      /\ otps'[Len(otps')].created_at = now

C6_CreateConflict == [][C6_CreateStep]_vars

\* a create was refused for a user whose earlier OTP was verified and who
\* was then given a new one
C6_Witness ==
    /\ last.op = "createOtp"
    /\ last.thrown.statusCode = 409
    /\ \E i, j \in OtpsOf(last.loc.userId) :
          /\ i < j
          /\ otps[i].otp_status = "VERIFIED"
          /\ otps[j].otp_status = "CREATED"
          /\ Age(otps[j]) < FIVE_MINUTES_IN_MS

\* C7: VERIFIED and EXPIRED are terminal: in every behaviour, concurrent
\* verify calls and sweeps included, a row in one of them never changes
\* status again.
C7_TerminalStep ==
    \A i \in 1..Len(otps) :
        otps[i].otp_status \in {"VERIFIED", "EXPIRED"} =>
            otps'[i].otp_status = otps[i].otp_status

C7_TerminalStatuses == [][C7_TerminalStep]_vars

\* C8: when the CREATED row that verify selected for the user and the
\* passcode is older than 5 minutes, verify takes the expiry branch: it
\* leaves the row EXPIRED and returns false, and never returns true.
C8_VerifyStep ==
    \A p \in Procs :
        /\ (pc[p] = "v_select" /\ pc'[p] \in {"v_expire", "v_verify"}) =>
              LET row == otps[loc'[p].otpId]
              IN  /\ row.otp_status = "CREATED"
                  /\ row.user_id = req[p].id
                  /\ row.otp = req[p].otp
                  /\ Age(row) > FIVE_MINUTES_IN_MS => pc'[p] = "v_expire"
        /\ (pc[p] = "v_expire" /\ pc'[p] # pc[p]) =>
              /\ otps'[loc[p].otpId].otp_status = "EXPIRED"
              /\ Finishes(p)
              /\ last'.status = 400
              /\ ~last'.loc.verified
              /\ users' = users

C8_ExpiredOtpRejected == [][C8_VerifyStep]_vars

\* a reset was refused on a matching row older than 5 minutes, now EXPIRED
C8_Witness ==
    /\ last.op = "reset"
    /\ last.status = 400
    /\ ~last.loc.verified
    /\ last.loc.otpId # 0
    /\ otps[last.loc.otpId].otp_status = "EXPIRED"
    /\ otps[last.loc.otpId].otp = last.otp
    /\ Age(otps[last.loc.otpId]) > FIVE_MINUTES_IN_MS

\* the steps of the reset flow, in the order of the controller
ResetSteps == <<"presence", "format", "lookup", "verify", "update">>

IsPrefixOfResetSteps(steps) ==
    /\ Len(steps) <= Len(ResetSteps)
    /\ \A k \in 1..Len(steps) : steps[k] = ResetSteps[k]

\* C9: with requests one after another, a reset with a well-formed,
\* matching, unexpired CREATED OTP for (id, email) succeeds and sets the
\* new password; a later attempt presenting a passcode whose row is VERIFIED
\* fails with 400 and leaves the passwords unchanged; no OTP row
\* authorizes more than one successful reset.
C9_ResetStep ==
    /\ \A i \in 1..Len(resetCount') : resetCount'[i] <= 1
    /\ \A p \in Procs :
          ( /\ req[p].op = "reset"
            /\ pc[p] # "p_format"
            /\ Finishes(p)
            /\ FindByIdAndEmail(req[p].id, req[p].email) # 0 ) =>
              LET matching == FindOtpToVerify(req[p].id, req[p].otp)
                  used == {i \in OtpsOf(req[p].id) :
                              /\ otps[i].otp = req[p].otp
                              /\ otps[i].otp_status = "VERIFIED"}
              IN  /\ ( \/ loc[p].verified
                       \/ /\ matching # {}
                          /\ \A i \in matching : ~VerifyExpired(otps[i]) ) =>
                        /\ last'.status = 200
                        /\ last'.success
                        /\ users' = [users EXCEPT
                                        ![req[p].id].password = req[p].password]
                  /\ (~loc[p].verified /\ matching = {} /\ used # {}) =>
                        /\ last'.status = 400
                        /\ ~last'.success
                        /\ users' = users

C9_SingleUseOtp == [][C9_ResetStep]_vars

\* a reset was refused at the verify step for a passcode whose row had
\* authorized one reset before
C9_Witness ==
    /\ last.op = "reset"
    /\ last.status = 400
    /\ last.loc.steps = SubSeq(ResetSteps, 1, 4)
    /\ \E i \in OtpsOf(last.loc.userId) :
          /\ otps[i].otp = last.otp
          /\ otps[i].otp_status = "VERIFIED"
          /\ resetCount[i] = 1
          /\ users[otps[i].user_id].password = "pw2"

\* C10: the reset flow attempts presence check, format check, user lookup,
\* OTP verify and password update in that order, each only after the
\* earlier ones passed; the password update is reached only after verify
\* returned true in the same request; and the responses are 400, 400, 404,
\* 400, 400 for a failure of each step and 200 without data for success.
C10_ResetOrder ==
    /\ \A p \in Procs :
          req[p].op = "reset" =>
              /\ IsPrefixOfResetSteps(loc[p].steps)
              /\ pc[p] = "p_format" <=> Len(loc[p].steps) = 1
              /\ pc[p] = "p_lookup" <=> Len(loc[p].steps) = 2
              /\ pc[p] = "v_user" <=> Len(loc[p].steps) = 3
              /\ pc[p] \in {"v_select", "v_expire", "v_verify", "w_find"}
                    <=> Len(loc[p].steps) = 4
              /\ pc[p] = "w_write" <=> Len(loc[p].steps) = 5
              /\ pc[p] \in {"w_find", "w_write"} <=> loc[p].verified
    /\ last.op = "reset" =>
          /\ IsPrefixOfResetSteps(last.loc.steps)
          /\ Len(last.loc.steps) = 1 => last.status = 400
          /\ (Len(last.loc.steps) = 2 /\ last.thrown = NoErr) => last.status = 400
          /\ Len(last.loc.steps) = 3 => last.status = 404
          /\ Len(last.loc.steps) = 4 => last.status = 400 /\ ~last.loc.verified
          /\ Len(last.loc.steps) = 5 =>
                /\ last.loc.verified
                /\ \/ last.status = 400
                   \/ last.status = 200 /\ last.success /\ last.data = "null"
          /\ last.status = 200 => Len(last.loc.steps) = 5
          /\ last.status \in {200, 400, 404, 500}
          /\ last.status = 500 => last.thrown # NoErr

\* a reset went through all five steps and answered 200
C10_Witness ==
    /\ last.op = "reset"
    /\ last.status = 200
    /\ last.loc.steps = ResetSteps
    /\ last.loc.verified
    /\ otps[last.loc.otpId].otp_status = "VERIFIED"

\* handler p takes this step
Steps(p) == pc'[p] # pc[p]

\* C11: a reset request that ends in failure, at whatever step, has written
\* nothing to the user store or the OTP store.
C11_FailedResetWritesNothing ==
    (last.op = "reset" /\ last.status # 200) => last.loc.writes = <<>>

\* C12: an OTP issued for one user never resets the password of another:
\* a reset for (id, email) succeeds only if the pair identifies a
\* non-DELETED user and the OTP row it consumed is owned by that id, has
\* the presented value and was CREATED when it was consumed; only that
\* user's password changes; and a reset presenting a value for which the
\* user has no CREATED row (the row of another user, say) does not succeed.
C12_ResetStep ==
    \A p \in Procs :
        (req[p].op = "reset" /\ Steps(p)) =>
            LET id == req[p].id
                i == loc[p].otpId
            IN  /\ pc[p] = "v_verify" =>
                      /\ otps[i].otp_status = "CREATED"
                      /\ otps'[i].otp_status = "VERIFIED"
                /\ (users' # users \/ (Finishes(p) /\ last'.status = 200)) =>
                      /\ id \in 1..Len(users)
                      /\ users[id].email = req[p].email
                      /\ users[id].account_status # "DELETED"
                      /\ i \in 1..Len(otps)
                      /\ otps[i].user_id = id
                      /\ otps[i].otp = req[p].otp
                      /\ loc[p].writes = <<"VERIFIED">>
                      /\ \A u \in 1..Len(users) : u # id => users'[u] = users[u]
                /\ ( /\ Finishes(p)
                     /\ ~loc[p].verified
                     /\ \A k \in 1..Len(otps) :
                           ~ ( /\ otps[k].user_id = id
                               /\ otps[k].otp = req[p].otp
                               /\ otps[k].otp_status = "CREATED" ) ) =>
                      /\ last'.status # 200
                      /\ users' = users

C12_NoCrossUserReset == [][C12_ResetStep]_vars

\* a reset for one user presenting the live passcode of the other user was
\* refused at the verify step, and that passcode is still CREATED
C12_Witness ==
    /\ last.op = "reset"
    /\ last.status = 400
    /\ last.loc.steps = SubSeq(ResetSteps, 1, 4)
    /\ last.loc.writes = <<>>
    /\ \E k \in 1..Len(otps) :
          /\ otps[k].otp = last.otp
          /\ otps[k].otp_status = "CREATED"
          /\ otps[k].user_id # last.loc.userId
          /\ ~VerifyExpired(otps[k])

\* C13: a delete succeeds exactly when the row exists and is not DELETED,
\* and then sets its status to DELETED; a delete of a DELETED or unknown id
\* answers 404 and changes nothing; no step takes a row out of DELETED, so
\* of the deletes of one id, sequential or concurrent, one reports success.
C13_DeleteStep ==
    /\ \A i \in 1..Len(users) :
          users[i].account_status = "DELETED" =>
              users'[i].account_status = "DELETED"
    /\ \A p \in Procs :
          (req[p].op = "delete" /\ Steps(p)) =>
              LET id == req[p].id
              IN  IF id \in 1..Len(users) /\ users[id].account_status # "DELETED"
                  THEN /\ last'.status = 200
                       /\ last'.success
                       /\ users' = [users EXCEPT ![id].account_status = "DELETED"]
                  ELSE /\ last'.status = 404
                       /\ ~last'.success
                       /\ users' = users

C13_DeleteOnce == [][C13_DeleteStep]_vars

\* a second delete of an id was answered 404 while another delete of the
\* same id, started before that answer, is still to run
C13_Witness ==
    /\ last.op = "delete"
    /\ last.status = 404
    /\ last.loc.userId \in 1..Len(users)
    /\ users[last.loc.userId].account_status = "DELETED"
    /\ \E p \in Procs : pc[p] = "d_write" /\ req[p].id = last.loc.userId

\* C14: verifyAccount sets the status to VERIFIED and succeeds only when
\* the status is exactly PENDING_VALIDATION; otherwise it fails and changes
\* nothing; no row returns to PENDING_VALIDATION, so of the calls for one
\* user, in a row or racing, at most one succeeds, the first to find the
\* row pending.
C14_VerifyAccountStep ==
    /\ \A i \in 1..Len(users) :
          /\ users[i].account_status # "PENDING_VALIDATION" =>
                users'[i].account_status # "PENDING_VALIDATION"
          /\ (users[i].account_status # "VERIFIED"
                /\ users'[i].account_status = "VERIFIED") =>
                /\ users[i].account_status = "PENDING_VALIDATION"
                /\ \E p \in Procs : pc[p] = "a_write" /\ loc[p].userId = i
    /\ \A p \in Procs :
          (pc[p] = "a_write" /\ Steps(p)) =>
              LET id == loc[p].userId
              IN  IF users[id].account_status = "PENDING_VALIDATION"
                  THEN /\ users' = [users EXCEPT ![id].account_status = "VERIFIED"]
                       /\ last'.success
                       /\ last'.thrown = NoErr
                  ELSE /\ users' = users
                       /\ ~last'.success
                       /\ last'.thrown # NoErr

C15_AccountStatusStep ==
    \A p \in Procs :
        (req[p].op = "verifyAccount" /\ Finishes(p)) =>
            LET id == req[p].id
            IN  IF FindById(id) = 0
                THEN last'.status = 404
                ELSE IF users[id].account_status # "PENDING_VALIDATION"
                THEN last'.status = 400
                ELSE /\ last'.status = 200
                     /\ last'.data = "account_status"
                     /\ users'[id].account_status = "VERIFIED"

C15_AccountStatusCodes == [][C15_AccountStatusStep]_vars

\* C16: POST /auth/otp answers 400 when the email is missing, 404 when no
\* non-DELETED user has the email, 409 when the user has a CREATED OTP
\* younger than 5 minutes, and 201 with the OTP record when every OTP of
\* the user is VERIFIED or older than 5 minutes (the gateway having
\* answered).
C16_CreateOtpStep ==
    /\ (last' # last /\ last'.op = "createOtp" /\ \A p \in Procs : ~Steps(p)) =>
          last'.status = 400
    /\ \A p \in Procs :
          (req[p].op = "createOtp" /\ Finishes(p) /\ pc[p] # "o_gateway") =>
              LET u == FindByEmail(req[p].email)
              IN  IF u = 0
                  THEN last'.status = 404
                  ELSE IF \E i \in OtpsOf(u) :
                             /\ otps[i].otp_status = "CREATED"
                             /\ Age(otps[i]) < FIVE_MINUTES_IN_MS
                  THEN last'.status = 409
                  ELSE (\A i \in OtpsOf(u) :
                            \/ otps[i].otp_status = "VERIFIED"
                            \/ Age(otps[i]) > FIVE_MINUTES_IN_MS) =>
                          /\ last'.status = 201
                          /\ last'.data = "otp"

C16_CreateOtpCodes == [][C16_CreateOtpStep]_vars

LiveIds == {i \in 1..Len(users) : users[i].account_status # "DELETED"}

\* position of a live row in the creation-time-descending order
Rank(i) ==
    1 + Cardinality({j \in LiveIds : users[j].created_at > users[i].created_at})

\* page sizes of the concatenation check
ListSizes == {1, 2, 3, 10, 100}

RECURSIVE PagesFrom(_, _, _)
PagesFrom(page, totalPages, size) ==
    IF page > totalPages THEN <<>>
    ELSE FindAllPaginated(page, size).users
            \o PagesFrom(page + 1, totalPages, size)

\* C17: over a fixed store with N non-DELETED users of distinct creation
\* times and a page size S in [1,100], a page reports totalItems = N and
\* totalPages = ceil(N/S), page p holds the users at positions
\* (p-1)*S+1 .. min(p*S, N) of the creation-time-descending order, and the
\* pages 1..totalPages together hold every non-DELETED user once and no
\* DELETED user.
C17_ListStep ==
    /\ \A S \in ListSizes :
          LET all == PagesFrom(1, FindAllPaginated(1, S).totalPages, S)
          IN  /\ Len(all) = Cardinality(LiveIds)
              /\ {all[k] : k \in 1..Len(all)} = LiveIds
              /\ \A k \in 1..Len(all) : Rank(all[k]) = k
    /\ \A p \in Procs :
          (req[p].op = "list" /\ Finishes(p) /\ last'.status = 200) =>
              LET got == last'.loc.paginatedUsers
                  N == Cardinality(LiveIds)
                  S == got.pageSize
                  pg == got.currentPage
              IN  /\ got = FindAllPaginated(RequestedPage(req[p]),
                                            RequestedSize(req[p]))
                  /\ S \in 1..100
                  /\ got.totalItems = N
                  /\ got.totalPages * S >= N
                  /\ (got.totalPages - 1) * S < N
                  /\ got.totalPages >= 0
                  /\ Len(got.users) = Max(0, Min(pg * S, N) - (pg - 1) * S)
                  /\ \A k \in 1..Len(got.users) :
                        /\ got.users[k] \in LiveIds
                        /\ Rank(got.users[k]) = (pg - 1) * S + k

C17_Pagination == [][C17_ListStep]_vars

\* the second page of size 1 of a store with two live users and a DELETED
\* one that is newer than both
C17_Witness ==
    /\ last.op = "list"
    /\ last.status = 200
    /\ last.loc.paginatedUsers.currentPage = 2
    /\ last.loc.paginatedUsers.pageSize = 1
    /\ last.loc.paginatedUsers.totalItems = 2
    /\ last.loc.paginatedUsers.totalPages = 2
    /\ Len(last.loc.paginatedUsers.users) = 1
    /\ \E i \in 1..Len(users) :
          /\ users[i].account_status = "DELETED"
          /\ \A j \in LiveIds : users[j].created_at < users[i].created_at

\* C18: GET /users answers 400, without querying the store, for every
\* supplied integer page < 1 and every supplied integer size outside
\* [1,100]; for all other inputs it answers 200 with the requested page and
\* size (1 and 10 when not supplied).
C18_ListStep ==
    \A p \in Procs :
        (req[p].op = "list" /\ Steps(p)) =>
            LET badPage == req[p].page # <<>> /\ req[p].page[1] < 1
                badSize == /\ req[p].size # <<>>
                           /\ (req[p].size[1] < 1 \/ req[p].size[1] > 100)
            IN  IF badPage \/ badSize
                THEN /\ pc[p] = "l_validate"
                     /\ Finishes(p)
                     /\ last'.status = 400
                ELSE Finishes(p) =>
                        /\ last'.status = 200
                        /\ last'.loc.paginatedUsers.currentPage =
                              (IF req[p].page = <<>> THEN 1 ELSE req[p].page[1])
                        /\ last'.loc.paginatedUsers.pageSize =
                              (IF req[p].size = <<>> THEN 10 ELSE req[p].size[1])

C18_ListValidation == [][C18_ListStep]_vars

\* C19: a failed call of the OTP gateway (the format check of a reset, the
\* generation of a passcode) ends the request with a 500 response after
\* one gateway attempt, without a retry, and the request has inserted or
\* modified no user or OTP row.
C19_GatewayStep ==
    \A p \in Procs :
        /\ loc'[p].gatewayCalls <= 1
        /\ (Finishes(p) /\ last'.thrown = TransportError) =>
              /\ pc[p] \in {"o_gateway", "p_format"}
              /\ last'.status = 500
              /\ ~last'.success
              /\ last'.loc.gatewayCalls = 1
              /\ last'.loc.writes = <<>>
              /\ last'.loc.otpId = 0
              /\ users' = users
              /\ otps' = otps
        /\ (pc[p] \in {"o_gateway", "p_format"} /\ Steps(p)) =>
              /\ loc[p].gatewayCalls = 0
              /\ users' = users
              /\ otps' = otps
              /\ pc'[p] \in {"idle", "o_user", "p_lookup"}

C19_GatewayFailure == [][C19_GatewayStep]_vars

\* the gateway failed on the format check of a reset that presented a
\* passcode its user holds, CREATED and unexpired
C19_Witness ==
    /\ last.op = "reset"
    /\ last.thrown = TransportError
    /\ last.status = 500
    /\ last.loc.gatewayCalls = 1
    /\ \E i \in 1..Len(otps) :
          /\ otps[i].otp = last.otp
          /\ otps[i].otp_status = "CREATED"
          /\ ~VerifyExpired(otps[i])
          /\ users[otps[i].user_id].password = "pw1"

\* no finder and no page of the list returns a DELETED row
DeletedRowsAreHidden ==
    \A i \in 1..Len(users) :
        users[i].account_status = "DELETED" =>
            /\ FindById(i) = 0
            /\ FindByEmail(users[i].email) # i
            /\ FindByIdAndEmail(i, users[i].email) = 0
            /\ \A page \in 1..(MaxUsers + 1), size \in ListSizes :
                  LET listed == FindAllPaginated(page, size).users
                  IN  \A k \in 1..Len(listed) : listed[k] # i

\* C20: user rows are never physically removed: no step takes a row away,
\* a delete changes nothing but the account_status of its row, to DELETED,
\* and a DELETED row stays DELETED and is returned by none of findById,
\* findByEmail, findByIdAndEmail and the paginated list.
C20_SoftDeleteStep ==
    /\ Len(users') >= Len(users)
    /\ \A i \in 1..Len(users) :
          /\ users'[i].created_at = users[i].created_at
          /\ users[i].account_status = "DELETED" => users'[i] = users[i]
    /\ \A p \in Procs :
          (req[p].op = "delete" /\ Steps(p)) =>
              \/ users' = users
              \/ /\ users[req[p].id].account_status # "DELETED"
                 /\ users' = [users EXCEPT ![req[p].id].account_status = "DELETED"]
    /\ DeletedRowsAreHidden'

C21_RegisterStep ==
    \A p \in Procs :
        (req[p].op = "register" /\ NotNullViolated(req[p])) =>
            /\ users' = users
            /\ Finishes(p) => last'.status = 400

C21_InvalidRegisterBody == [][C21_RegisterStep]_vars

\* C22: the JSON body of every response, those of the health routes
\* included, has exactly the fields success, message, data, error and
\* timestamp; a success response has success = true and error = null, an
\* error response has success = false and data = null, and the HTTP status
\* is the statusCode of the response model.
EnvelopeFields == {"success", "message", "data", "error", "timestamp"}

C22_Envelope ==
    (last.op # "none" /\ last.status # 0) =>
        /\ DOMAIN last.body = EnvelopeFields
        /\ last.status < 400 => (last.body.success /\ last.body.error = "null")
        /\ last.status >= 400 => (~last.body.success /\ last.body.data = "null")

\* C23: connectWithRetry(retries, delay) terminates; it makes at most
\* `retries` attempts to connect, returns at the first attempt that succeeds
\* and attempts nothing after it, waits `delay` between two attempts and
\* nowhere else, and calls process.exit(1) exactly when attempt number
\* `retries` has failed; it is called once.
C23_Counts ==
    /\ boot.calls <= 1
    /\ boot.attempts <= boot.retries
    /\ boot.waits = (IF boot.pc = "connect" THEN boot.attempts
                     ELSE IF boot.attempts = 0 THEN 0 ELSE boot.attempts - 1)
    /\ boot.waited = boot.waits * boot.delay
    /\ boot.fails \in {boot.attempts, boot.attempts - 1}
    /\ boot.pc = "returned" => boot.fails = Max(boot.attempts - 1, 0)
    /\ boot.exits = (IF boot.fails = boot.retries /\ boot.retries >= 1
                     THEN 1 ELSE 0)
    /\ boot.pc = "exited" <=> boot.exits = 1
    /\ boot.exits = 1 => boot.exitCode = 1

C23_Settled == boot.pc \in {"returned", "exited"} => boot' = boot

C23_ConnectTerminates ==
    /\ []C23_Counts
    /\ [][C23_Settled]_vars
    /\ <>(boot.pc \in {"returned", "exited"})

\* the default call has failed five times, waited four times and exited
C23_Witness ==
    /\ boot.retries = DefaultRetries
    /\ boot.delay = DefaultDelay
    /\ boot.pc = "exited"
    /\ boot.fails = 5
    /\ boot.waits = 4

\* the successful resets of a user: the sum of resetCount over the user's
\* OTP rows
RECURSIVE SumResetCount(_)
SumResetCount(rows) ==
    IF rows = {} THEN 0
    ELSE LET i == CHOOSE j \in rows : TRUE
         IN  resetCount[i] + SumResetCount(rows \ {i})

\* C24: when two reset requests presenting the same valid CREATED OTP of a
\* user are interleaved, at most one of them has verify return true and
\* changes the password; the successful resets of a user are never more
\* than the user's OTP rows in status VERIFIED.
C24_ConcurrentResetsOnce ==
    /\ \A p, q \in Procs :
          (p # q /\ loc[p].verified /\ loc[q].verified) =>
              loc[p].otpId # loc[q].otpId
    /\ \A userId \in UserIds :
          SumResetCount(OtpsOf(userId))
              <= Cardinality({i \in OtpsOf(userId) :
                                 otps[i].otp_status = "VERIFIED"})

\* C25: DELETED is absorbing and frozen: no step of an update, a
\* verifyAccount, a delete or a password reset, however interleaved with a
\* concurrent delete, changes the status, name, email, phone or password of
\* a row that is DELETED.
C25_DeletedStep ==
    \A i \in 1..Len(users) :
        users[i].account_status = "DELETED" =>
            /\ i \in 1..Len(users')
            /\ users'[i].account_status = "DELETED"
            /\ users'[i].name = users[i].name
            /\ users'[i].email = users[i].email
            /\ users'[i].phone = users[i].phone
            /\ users'[i].password = users[i].password

C25_DeletedIsFrozen == [][C25_DeletedStep]_vars

\* a handler is about to write a row that a concurrent delete has set to
\* DELETED since the handler found it
C25_Witness ==
    /\ \E p \in Procs :
          /\ pc[p] \in {"u_write", "w_write", "a_write"}
          /\ users[req[p].id].account_status = "DELETED"
    /\ last.op = "delete"
    /\ last.status = 200

\* C28: each write of the user store touches its own fields of the row its
\* request addresses by id, and no other row: an update leaves password
\* and account_status as they were, a reset changes the password only, and
\* only after verify returned true in the same request, verifyAccount and
\* delete change account_status only; a new row comes from a registration.
C28_WriteStep ==
    /\ Len(users') >= Len(users)
    /\ \A i \in 1..Len(users) :
          users'[i] # users[i] =>
              \E p \in Procs :
                  /\ Steps(p)
                  /\ req[p].id = i
                  /\ \/ /\ req[p].op = "update"
                        /\ users'[i] = [users[i] EXCEPT
                                           !.name = users'[i].name,
                                           !.email = users'[i].email,
                                           !.phone = users'[i].phone]
                     \/ /\ req[p].op = "reset"
                        /\ loc[p].verified
                        /\ users'[i] = [users[i] EXCEPT
                                           !.password = req[p].password]
                     \/ /\ req[p].op = "verifyAccount"
                        /\ users'[i] = [users[i] EXCEPT
                                           !.account_status = "VERIFIED"]
                     \/ /\ req[p].op = "delete"
                        /\ users'[i] = [users[i] EXCEPT
                                           !.account_status = "DELETED"]
    /\ Len(users') > Len(users) =>
          \E p \in Procs :
              /\ Steps(p)
              /\ req[p].op = "register"
              /\ users' = Append(users, UserRow(req[p].name, req[p].email,
                                                req[p].password, req[p].phone,
                                                now))

C26_ExpiryTestsAgree ==
    \A i \in 1..Len(otps) :
        otps[i].otp_status = "CREATED" =>
            (SweepCondition(otps[i]) <=> VerifyExpired(otps[i]))

\* the OTP rows whose status a step changes
StatusChanged == {i \in 1..Len(otps) : otps'[i].otp_status # otps[i].otp_status}

\* C27: a verify that returns false because (id, email) matches no
\* non-DELETED user, or because the user has no CREATED row with the
\* presented value, leaves every OTP row as it was (a wrong guess neither
\* expires nor consumes the user's CREATED passcode); a verify that succeeds
\* or finds the row expired changes the status of exactly one row.
C27_VerifyStep ==
    \A p \in Procs :
        /\ (pc[p] = "v_user" /\ Steps(p)) =>
              /\ otps' = otps
              /\ Finishes(p) <=> FindByIdAndEmail(req[p].id, req[p].email) = 0
              /\ Finishes(p) => (~last'.loc.verified /\ last'.status = 400)
        /\ (pc[p] = "v_select" /\ Steps(p)) =>
              /\ otps' = otps
              /\ Finishes(p) <=>
                    ~ \E i \in OtpsOf(req[p].id) :
                          /\ otps[i].otp = req[p].otp
                          /\ otps[i].otp_status = "CREATED"
              /\ Finishes(p) => (~last'.loc.verified /\ last'.status = 400)
        /\ (pc[p] \in {"v_expire", "v_verify"} /\ Steps(p)) =>
              /\ StatusChanged = {loc[p].otpId}
              /\ otps' = [otps EXCEPT ![loc[p].otpId].otp_status =
                              IF pc[p] = "v_verify" THEN "VERIFIED"
                                                    ELSE "EXPIRED"]
              /\ pc[p] = "v_verify" <=> loc'[p].verified

C27_VerifyFrame == [][C27_VerifyStep]_vars

\* a reset presenting a wrong passcode was refused at the verify step, and
\* the user's own passcode is still CREATED and not expired
C27_Witness ==
    /\ last.op = "reset"
    /\ last.status = 400
    /\ last.loc.steps = SubSeq(ResetSteps, 1, 4)
    /\ last.loc.writes = <<>>
    /\ \E k \in OtpsOf(last.loc.userId) :
          /\ otps[k].otp # last.otp
          /\ otps[k].otp_status = "CREATED"
          /\ ~VerifyExpired(otps[k])

\* C29: an OTP creation inserts a row only when the gateway returned a
\* passcode, a non-DELETED user holds the email and, after the sweep, that
\* user has no CREATED row; the row is owned by that user, carries the
\* gateway's value and is CREATED.  A creation that fails inserts nothing,
\* and the only change a failing creation makes is the sweep's: CREATED rows
\* aged 5 minutes or more become EXPIRED.
C29_CreateStep ==
    /\ \A p \in Procs :
          (req[p].op = "createOtp" /\ Steps(p)) =>
              LET user == FindByEmail(req[p].email)
              IN  /\ users' = users
                  /\ Len(otps') # Len(otps) =>
                        /\ loc[p].gatewayCalls = 1
                        /\ loc[p].otp \in GatewayOtps
                        /\ user # 0
                        /\ \A i \in OtpsOf(user) : otps[i].otp_status # "CREATED"
                        /\ \A i \in 1..Len(otps) : ~SweepCondition(otps[i])
                        /\ otps' = Append(otps, [otp |-> loc[p].otp,
                                                 user_id |-> user,
                                                 created_at |-> now,
                                                 otp_status |-> "CREATED"])
                        /\ last'.status = 201
                  /\ (Finishes(p) /\ last'.status = 201) => Len(otps') = Len(otps) + 1
                  /\ Len(otps') = Len(otps) =>
                        \A i \in 1..Len(otps) :
                            otps'[i] # otps[i] =>
                                /\ otps[i].otp_status = "CREATED"
                                /\ Age(otps[i]) >= FIVE_MINUTES_IN_MS
                                /\ otps'[i] = [otps[i] EXCEPT !.otp_status = "EXPIRED"]
    /\ (last'.op = "createOtp" /\ last'.status # 201) =>
          (Len(otps') = Len(otps) /\ users' = users)

C29_CreateOtpEffects == [][C29_CreateStep]_vars

\* a creation was refused for a user with an active passcode after its sweep
\* had expired an old row of the other user
C29_Witness ==
    /\ last.op = "createOtp"
    /\ last.status = 500
    /\ last.thrown.statusCode = 409
    /\ Len(otps) = 2
    /\ \E i, j \in 1..Len(otps) :
          /\ otps[i].user_id = last.loc.userId
          /\ otps[i].otp_status = "CREATED"
          /\ otps[j].user_id # last.loc.userId
          /\ otps[j].otp_status = "EXPIRED"
          /\ otps[j].created_at = 0
          /\ otps[i].created_at = now

\* C30: a paginated read is consistent with one state of the store, also
\* when registrations and deletes run beside it: the page it returns holds
\* no more users than the totalItems it reports, and no user that was not
\* in the state that was counted.
C30_ListStep ==
    \A p \in Procs :
        (req[p].op = "list" /\ Finishes(p) /\ last'.status = 200) =>
            LET paginatedUsers == last'.loc.paginatedUsers
            IN  /\ Len(paginatedUsers.users) <= paginatedUsers.totalItems
                /\ \A k \in 1..Len(paginatedUsers.users) :
                      paginatedUsers.users[k] \in last'.loc.counted

C30_ConsistentRead == [][C30_ListStep]_vars
====
